---- MODULE Spec2Model ----
(***************************************************************************)
(* A model of the data layer of dsa-helper: the DataManager of             *)
(* data_manager.py (catalog, progress record, persistence to the progress  *)
(* file) and the pure helpers of utils.py.                                 *)
(***************************************************************************)
EXTENDS Integers, Sequences, FiniteSets, TLC

VARIABLES
    config,      \* DataManager.config: the catalog loaded by load_config
    progress,    \* DataManager.progress: the in-memory progress record
    file,        \* the content of progress_file on disk
    clock,       \* what datetime.now() returns; every write of the file is later than the one before
    pc,          \* "idle" between calls, "writing" inside save_progress, "down" after a failure
    nops,        \* number of state-changing mutator calls made so far
    credited,    \* sum of the time_spent arguments of the mark_solved calls that took effect
    durable,     \* the record of the last write of the file that completed
    recommended, \* the last result of get_recommended_problems and the limit it was called with
    configFile,  \* the state of config_file on disk: "missing", "malformed" or "present"
    other,       \* the progress record of a second DataManager opened on the same progress file
    writer,      \* which DataManager wrote the progress file last: 1, 2, or 0 before any write
    streak       \* the last result of calculate_streak

(* What a single DataManager in use never touches *)
aux == <<configFile, other, writer, streak>>

vars == <<config, progress, file, clock, pc, nops, credited, durable, recommended,
          configFile, other, writer, streak>>

----------------------------------------------------------------------------
(* Bounds of the model *)

MaxOps == 3
MaxCatalog == 3

(* Python's None, used for last_updated before the first write *)
None == -1

Difficulties == {"Easy", "Medium", "Hard"}
Importances == {"High", "Medium", "Low"}

(* The ids the calls are made with: 1, 2 and 5 are in the sample catalog, 9 is not *)
Ids == {1, 2, 5, 9}

(* The time_spent arguments of mark_solved *)
TimeSpentValues == {0, 30}

(* The note texts of save_note; the empty text is a valid note *)
NoteTexts == {"", "n"}

----------------------------------------------------------------------------
(* Python helpers: dict.get, dict item assignment, list.remove, x in list *)

Get(d, k, default) == IF k \in DOMAIN d THEN d[k] ELSE default

Put(d, k, v) == [x \in (DOMAIN d) \cup {k} |-> IF x = k THEN v ELSE d[x]]

Range(s) == {s[i] : i \in DOMAIN s}

Min(S) == CHOOSE x \in S : \A y \in S : x <= y

ListRemove(s, x) ==
    LET i == Min({j \in DOMAIN s : s[j] = x})
    IN [j \in 1..(Len(s) - 1) |-> IF j < i THEN s[j] ELSE s[j + 1]]

EmptyDict == [x \in {} |-> 0]

----------------------------------------------------------------------------
(* The catalog *)

Problem(id, difficulty, topic, importance) ==
    [id |-> id, difficulty |-> difficulty, topic |-> topic, importance |-> importance]

NoProblem == Problem(0, "None", "None", "None")

SampleConfig ==
    [problems |-> << Problem(1, "Easy", "Array", "High"),
                     Problem(2, "Hard", "Array", "High"),
                     Problem(5, "Medium", "DP", "Medium") >>,
     learning_paths |-> [k \in {"beginner"} |-> <<1, 5, 7>>],
     topics |-> <<"Array", "DP">>,
     patterns |-> <<"Two Pointers">>]

EmptyConfig ==
    [problems |-> <<>>, learning_paths |-> EmptyDict, topics |-> <<>>, patterns |-> <<>>]

(* load_config: the parsed file, or the empty catalog when the file is not found *)
load_config(source) == IF source = "missing" THEN EmptyConfig ELSE SampleConfig

get_all_problems(cfg) == cfg.problems

get_problem_by_id(cfg, problem_id) ==
    LET hits == {i \in DOMAIN cfg.problems : cfg.problems[i].id = problem_id}
    IN IF hits = {} THEN NoProblem ELSE cfg.problems[Min(hits)]

----------------------------------------------------------------------------
(* The progress record and the progress file *)

(* The default record with the "Hard" counter forgotten *)
default_without_hard ==
    [solved_problems |-> <<>>,
     bookmarked_problems |-> <<>>,
     notes |-> EmptyDict,
     difficulty_stats |-> [d \in {"Easy", "Medium"} |-> 0],
     topic_stats |-> EmptyDict,
     last_updated |-> None,
     daily_streak |-> 0,
     total_time_spent |-> 0,
     solve_history |-> <<>>]

_create_default_progress ==
    [solved_problems |-> <<>>,
     bookmarked_problems |-> <<>>,
     notes |-> EmptyDict,
     difficulty_stats |-> [d \in Difficulties |-> 0],
     topic_stats |-> EmptyDict,
     last_updated |-> None,
     daily_streak |-> 0,
     total_time_spent |-> 0,
     solve_history |-> <<>>]

(* The file: absent, a complete JSON document, or an empty or cut document *)
AbsentFile == [kind |-> "absent", doc |-> _create_default_progress]

PartialFile == [kind |-> "partial", doc |-> _create_default_progress]

(* json.dump of the record: every key of the record is a string already,   *)
(* and lists, integers and None are written as they are                    *)
json_dump(p) ==
    [kind |-> "doc",
     doc |-> [solved_problems |-> p.solved_problems,
              bookmarked_problems |-> p.bookmarked_problems,
              notes |-> p.notes,
              difficulty_stats |-> p.difficulty_stats,
              topic_stats |-> p.topic_stats,
              last_updated |-> p.last_updated,
              daily_streak |-> p.daily_streak,
              total_time_spent |-> p.total_time_spent,
              solve_history |-> p.solve_history]]

(* load_progress: the document when the file exists and parses, else the default *)
load_progress(f) ==
    IF f.kind = "absent" THEN _create_default_progress
    ELSE IF f.kind = "doc" THEN f.doc
    ELSE _create_default_progress

(* The stamp left out *)
save_without_stamp(p, now) == p

(* save_progress stamps the record it is given (the in-memory one) *)
save_progress(p, now) == [p EXCEPT !.last_updated = now]

----------------------------------------------------------------------------
(* The mutators of DataManager.  Each yields the record after the call and  *)
(* whether the call reached save_progress.                                  *)

Result(p, saved) == [progress |-> p, saved |-> saved]

(* The guard left out: every call is treated as the first for its id *)
never_yet_solved(p, problem_id) == TRUE \/ problem_id \notin Range(p.solved_problems)

(* mark_solved: the guard, `problem_id not in solved_problems` *)
not_yet_solved(p, problem_id) == problem_id \notin Range(p.solved_problems)

(* The topic increment left out *)
count_solved_difficulty_only(p, problem) ==
    [p EXCEPT !.difficulty_stats[problem.difficulty] = @ + 1]

(* mark_solved: the two stat increments made for a problem of the catalog *)
count_solved(p, problem) ==
    [p EXCEPT !.difficulty_stats[problem.difficulty] = @ + 1,
              !.topic_stats = Put(@, problem.topic, Get(@, problem.topic, 0) + 1)]

(* mark_solved: the entry appended to solve_history *)
add_to_history(p, problem_id, time_spent, now) ==
    [p EXCEPT !.solve_history =
        Append(@, [problem_id |-> problem_id, timestamp |-> now, time_spent |-> time_spent])]

(* The sign slipped: total_time_spent -= time_spent *)
subtract_time_spent(p, time_spent) == [p EXCEPT !.total_time_spent = @ - time_spent]

(* mark_solved: total_time_spent += time_spent *)
add_time_spent(p, time_spent) == [p EXCEPT !.total_time_spent = @ + time_spent]

(* mark_solved with the history entry appended outside `if problem` *)
mark_solved_history_always(p, cfg, problem_id, time_spent, now) ==
    IF not_yet_solved(p, problem_id)
    THEN LET problem == get_problem_by_id(cfg, problem_id)
             p1 == [p EXCEPT !.solved_problems = Append(@, problem_id)]
             p2 == IF problem # NoProblem THEN count_solved(p1, problem) ELSE p1
             p3 == add_time_spent(add_to_history(p2, problem_id, time_spent, now), time_spent)
         IN Result(save_progress(p3, now), TRUE)
    ELSE Result(p, FALSE)

(* mark_solved with total_time_spent updated inside `if problem` *)
mark_solved_time_if_found(p, cfg, problem_id, time_spent, now) ==
    IF not_yet_solved(p, problem_id)
    THEN LET problem == get_problem_by_id(cfg, problem_id)
             p1 == [p EXCEPT !.solved_problems = Append(@, problem_id)]
             p2 == IF problem # NoProblem
                   THEN add_time_spent(
                            add_to_history(count_solved(p1, problem), problem_id, time_spent, now),
                            time_spent)
                   ELSE p1
         IN Result(save_progress(p2, now), TRUE)
    ELSE Result(p, FALSE)

mark_solved(p, cfg, problem_id, time_spent, now) ==
    IF not_yet_solved(p, problem_id)
    THEN LET problem == get_problem_by_id(cfg, problem_id)
             p1 == [p EXCEPT !.solved_problems = Append(@, problem_id)]
             p2 == IF problem # NoProblem
                   THEN add_to_history(count_solved(p1, problem), problem_id, time_spent, now)
                   ELSE p1
             p3 == add_time_spent(p2, time_spent)
         IN Result(save_progress(p3, now), TRUE)
    ELSE Result(p, FALSE)

(* mark_unsolved: the two stat decrements; topic_stats is floored at 0 *)
Max(a, b) == IF a >= b THEN a ELSE b

(* The difficulty decrement left out *)
count_unsolved_topic_only(p, problem) ==
    [p EXCEPT !.topic_stats = Put(@, problem.topic, Max(0, Get(@, problem.topic, 0) - 1))]

count_unsolved(p, problem) ==
    [p EXCEPT !.difficulty_stats[problem.difficulty] = @ - 1,
              !.topic_stats = Put(@, problem.topic, Max(0, Get(@, problem.topic, 0) - 1))]

mark_unsolved(p, cfg, problem_id, now) ==
    IF problem_id \in Range(p.solved_problems)
    THEN LET problem == get_problem_by_id(cfg, problem_id)
             p1 == [p EXCEPT !.solved_problems = ListRemove(@, problem_id)]
             p2 == IF problem # NoProblem THEN count_unsolved(p1, problem) ELSE p1
         IN Result(save_progress(p2, now), TRUE)
    ELSE Result(p, FALSE)

(* The removal left out: the id is appended whether bookmarked or not *)
always_bookmark(bookmarked, problem_id) == Append(bookmarked, problem_id)

(* toggle_bookmark: the flip of the membership of problem_id *)
flip_bookmark(bookmarked, problem_id) ==
    IF problem_id \in Range(bookmarked)
    THEN ListRemove(bookmarked, problem_id)
    ELSE Append(bookmarked, problem_id)

toggle_bookmark(p, problem_id, now) ==
    LET p1 == [p EXCEPT !.bookmarked_problems = flip_bookmark(@, problem_id)]
    IN Result(save_progress(p1, now), TRUE)

(* save_note taking the empty text as the removal of the note *)
save_note_empty_deletes(p, problem_id, note, now) ==
    LET key == ToString(problem_id)
        p1 == [p EXCEPT !.notes =
                   IF note = ""
                   THEN [k \in (DOMAIN @) \ {key} |-> @[k]]
                   ELSE Put(@, key, [content |-> note, last_updated |-> now])]
    IN Result(save_progress(p1, now), TRUE)

save_note(p, problem_id, note, now) ==
    LET p1 == [p EXCEPT !.notes =
                   Put(@, ToString(problem_id), [content |-> note, last_updated |-> now])]
    IN Result(save_progress(p1, now), TRUE)

get_note(p, problem_id) ==
    LET key == ToString(problem_id)
    IN IF key \in DOMAIN p.notes THEN p.notes[key].content ELSE ""

----------------------------------------------------------------------------
(* get_progress_stats.  completion_percentage is the exact fraction         *)
(* num / den of the float the code computes.                                *)

Fraction(num, den) == [num |-> num, den |-> den]

(* The factor 100 left out *)
get_progress_stats_ratio(cfg, p) ==
    LET total_problems == Len(cfg.problems)
        solved_count == Len(p.solved_problems)
    IN [total_problems |-> total_problems,
        solved_count |-> solved_count,
        unsolved_count |-> total_problems - solved_count,
        completion_percentage |->
            IF total_problems > 0
            THEN Fraction(solved_count, total_problems)
            ELSE Fraction(0, 1),
        difficulty_stats |-> p.difficulty_stats,
        topic_stats |-> p.topic_stats,
        daily_streak |-> p.daily_streak,
        total_time_spent |-> p.total_time_spent]

get_progress_stats(cfg, p) ==
    LET total_problems == Len(cfg.problems)
        solved_count == Len(p.solved_problems)
    IN [total_problems |-> total_problems,
        solved_count |-> solved_count,
        unsolved_count |-> total_problems - solved_count,
        completion_percentage |->
            IF total_problems > 0
            THEN Fraction(solved_count * 100, total_problems)
            ELSE Fraction(0, 1),
        difficulty_stats |-> p.difficulty_stats,
        topic_stats |-> p.topic_stats,
        daily_streak |-> p.daily_streak,
        total_time_spent |-> p.total_time_spent]

----------------------------------------------------------------------------
(* utils.get_recommended_problems *)

difficulty_order(d) == CASE d = "Easy" -> 1 [] d = "Medium" -> 2 [] d = "Hard" -> 3

(* An unstable insertion: the new element goes before those of equal key *)
RECURSIVE InsertBeforeEqualKeys(_, _)
InsertBeforeEqualKeys(sorted, x) ==
    IF sorted = <<>> THEN <<x>>
    ELSE LET last == sorted[Len(sorted)]
         IN IF difficulty_order(last.difficulty) < difficulty_order(x.difficulty)
            THEN Append(sorted, x)
            ELSE Append(InsertBeforeEqualKeys(SubSeq(sorted, 1, Len(sorted) - 1), x), last)

(* list.sort(key=...): a stable sort, here by insertion after the last     *)
(* element whose key is not larger                                          *)
RECURSIVE InsertByKey(_, _)
InsertByKey(sorted, x) ==
    IF sorted = <<>> THEN <<x>>
    ELSE LET last == sorted[Len(sorted)]
         IN IF difficulty_order(last.difficulty) <= difficulty_order(x.difficulty)
            THEN Append(sorted, x)
            ELSE Append(InsertByKey(SubSeq(sorted, 1, Len(sorted) - 1), x), last)

RECURSIVE SortByDifficulty(_)
SortByDifficulty(s) ==
    IF s = <<>> THEN <<>>
    ELSE InsertByKey(SortByDifficulty(SubSeq(s, 1, Len(s) - 1)), s[Len(s)])

(* s[:limit] for limit >= 0 *)
Slice(s, limit) == SubSeq(s, 1, IF limit < Len(s) THEN limit ELSE Len(s))

get_recommended_problems(cfg, user_progress, limit) ==
    LET all_problems == get_all_problems(cfg)
        solved_ids == Range(user_progress.solved_problems)
        IsUnsolved(q) == q.id \notin solved_ids
        unsolved == SelectSeq(all_problems, IsUnsolved)
        IsHigh(q) == q.importance = "High"
        high_importance == SelectSeq(unsolved, IsHigh)
    IN Slice(SortByDifficulty(high_importance), limit)

----------------------------------------------------------------------------
(* The store in use: one DataManager, calls made one after the other *)

NotRecommended == [called |-> FALSE, limit |-> 0, result |-> <<>>]

NoStreak == [called |-> FALSE, result |-> 0]

(* One DataManager only, and calculate_streak not called *)
NoSecondStore ==
    /\ other = _create_default_progress
    /\ writer = 0
    /\ streak = NoStreak

(* DataManager(): load_config, then load_progress of a file that is absent *)
(* or does not parse                                                        *)
Init ==
    /\ configFile \in {"missing", "present"}
    /\ config = load_config(configFile)
    /\ NoSecondStore
    /\ file \in {AbsentFile, PartialFile}
    /\ progress = load_progress(file)
    /\ clock = 0
    /\ pc = "idle"
    /\ nops = 0
    /\ credited = 0
    /\ durable = progress
    /\ recommended = NotRecommended

(* A call whose result is r, the write of the file included; the clock has *)
(* moved on by the next call that reads it                                 *)
Call(r, time_spent) ==
    /\ pc = "idle"
    /\ r.saved => nops < MaxOps
    /\ progress' = r.progress
    /\ file' = IF r.saved THEN json_dump(r.progress) ELSE file
    /\ durable' = IF r.saved THEN r.progress ELSE durable
    /\ nops' = IF r.saved THEN nops + 1 ELSE nops
    /\ credited' = IF r.saved THEN credited + time_spent ELSE credited
    /\ clock' = IF r.saved THEN clock + 1 ELSE clock
    /\ UNCHANGED <<aux, config, pc, recommended>>

MarkSolved(id, t) == Call(mark_solved(progress, config, id, t, clock), t)

MarkUnsolved(id) == Call(mark_unsolved(progress, config, id, clock), 0)

ToggleBookmark(id) == Call(toggle_bookmark(progress, id, clock), 0)

SaveNote(id, note) == Call(save_note(progress, id, note, clock), 0)

(* A new DataManager on the same files *)
Restart ==
    /\ pc = "idle"
    /\ progress' = load_progress(file)
    /\ UNCHANGED <<aux, config, file, clock, pc, nops, credited, durable, recommended>>

Next ==
    \/ \E id \in Ids, t \in TimeSpentValues : MarkSolved(id, t)
    \/ \E id \in Ids : MarkUnsolved(id)
    \/ \E id \in Ids : ToggleBookmark(id)
    \/ \E id \in Ids, note \in NoteTexts : SaveNote(id, note)
    \/ Restart

Spec == Init /\ [][Next]_vars

----------------------------------------------------------------------------
(* get_recommended_problems applied to every small catalog and solved list *)

(* Catalogs of up to MaxCatalog problems with distinct ids, in rising or   *)
(* falling id order, of every difficulty and importance                     *)
RecCatalogs ==
    UNION { { [i \in 1..n |-> Problem(IF rising THEN i ELSE n + 1 - i, d[i], "Array", m[i])] :
                d \in [1..n -> Difficulties], m \in [1..n -> Importances], rising \in BOOLEAN }
            : n \in 0..MaxCatalog }

RECURSIVE SetToSeq(_)
SetToSeq(S) == IF S = {} THEN <<>> ELSE LET x == Min(S) IN <<x>> \o SetToSeq(S \ {x})

InitRec ==
    /\ \E cat \in RecCatalogs : config = [EmptyConfig EXCEPT !.problems = cat]
    /\ configFile = "present"
    /\ NoSecondStore
    /\ \E S \in SUBSET (1..MaxCatalog) :
           progress = [_create_default_progress EXCEPT !.solved_problems = SetToSeq(S)]
    /\ file = AbsentFile
    /\ clock = 0
    /\ pc = "idle"
    /\ nops = 0
    /\ credited = 0
    /\ durable = _create_default_progress
    /\ recommended = NotRecommended

Recommend(limit) ==
    /\ pc = "idle"
    /\ ~recommended.called
    /\ recommended' = [called |-> TRUE, limit |-> limit,
                       result |-> get_recommended_problems(config, progress, limit)]
    /\ UNCHANGED <<aux, config, progress, file, clock, pc, nops, credited, durable>>

NextRec == \E limit \in 0..(MaxCatalog + 1) : Recommend(limit)

SpecRec == InitRec /\ [][NextRec]_vars

----------------------------------------------------------------------------
(* The store with the write of the file in two steps and a process that    *)
(* may fail: open(progress_file, 'w') empties the file, json.dump fills it *)

Begin(r, time_spent) ==
    /\ pc = "idle"
    /\ r.saved => nops < MaxOps
    /\ progress' = r.progress
    /\ file' = IF r.saved THEN PartialFile ELSE file
    /\ pc' = IF r.saved THEN "writing" ELSE "idle"
    /\ nops' = IF r.saved THEN nops + 1 ELSE nops
    /\ credited' = IF r.saved THEN credited + time_spent ELSE credited
    /\ clock' = IF r.saved THEN clock + 1 ELSE clock
    /\ UNCHANGED <<aux, config, durable, recommended>>

BeginMarkSolved(id, t) == Begin(mark_solved(progress, config, id, t, clock), t)

BeginMarkUnsolved(id) == Begin(mark_unsolved(progress, config, id, clock), 0)

BeginToggleBookmark(id) == Begin(toggle_bookmark(progress, id, clock), 0)

BeginSaveNote(id, note) == Begin(save_note(progress, id, note, clock), 0)

(* json.dump and the close of the file complete *)
FinishWrite ==
    /\ pc = "writing"
    /\ file' = json_dump(progress)
    /\ durable' = progress
    /\ pc' = "idle"
    /\ UNCHANGED <<aux, config, progress, clock, nops, credited, recommended>>

(* The process dies; its memory is gone, the file stays as it is *)
ProcessFails ==
    /\ pc \in {"idle", "writing"}
    /\ pc' = "down"
    /\ UNCHANGED <<aux, config, progress, file, clock, nops, credited, durable, recommended>>

(* The application starts again: a new DataManager loads the file *)
StartAgain ==
    /\ pc = "down"
    /\ progress' = load_progress(file)
    /\ pc' = "idle"
    /\ UNCHANGED <<aux, config, file, clock, nops, credited, durable, recommended>>

NextCrash ==
    \/ \E id \in Ids, t \in TimeSpentValues : BeginMarkSolved(id, t)
    \/ \E id \in Ids : BeginMarkUnsolved(id)
    \/ \E id \in Ids : BeginToggleBookmark(id)
    \/ \E id \in Ids, note \in NoteTexts : BeginSaveNote(id, note)
    \/ FinishWrite
    \/ ProcessFails
    \/ StartAgain

SpecCrash == Init /\ [][NextCrash]_vars

----------------------------------------------------------------------------
(* Properties of the progress record *)

CatalogIds(cfg) == {cfg.problems[i].id : i \in DOMAIN cfg.problems}

CatalogTopics(cfg) == {cfg.problems[i].topic : i \in DOMAIN cfg.problems}

SolvedIds(p) == Range(p.solved_problems)

(* The solved ids whose catalog problem has value v in the given field *)
SolvedWith(cfg, p, field, v) ==
    {id \in SolvedIds(p) :
        /\ get_problem_by_id(cfg, id) # NoProblem
        /\ get_problem_by_id(cfg, id)[field] = v}

(* C1: from the default record, after any calls of mark_solved and          *)
(* mark_unsolved, difficulty_stats[d] is the number of solved ids of        *)
(* catalog difficulty d and topic_stats[t] (0 when absent) is the number of *)
(* solved ids of catalog topic t.                                           *)
C1_StatsMatchSolved ==
    /\ \A d \in Difficulties :
          progress.difficulty_stats[d]
              = Cardinality(SolvedWith(config, progress, "difficulty", d))
    /\ \A t \in CatalogTopics(config) \cup DOMAIN progress.topic_stats :
          Get(progress.topic_stats, t, 0)
              = Cardinality(SolvedWith(config, progress, "topic", t))

(* Two catalog problems were solved and one of them unsolved again *)
C1_Witness ==
    /\ Len(progress.solve_history) = 2
    /\ Len(progress.solved_problems) = 1
    /\ Get(progress.topic_stats, "Array", 0) = 1
    /\ SolvedIds(progress) \subseteq CatalogIds(config)

(* C2: mark_solved is idempotent: a second mark_solved of the same id, with *)
(* any time_spent and at any later time, changes nothing of the record and  *)
(* does not write.                                                          *)
C2_MarkSolvedIdempotent ==
    \A id \in Ids, t1 \in TimeSpentValues, t2 \in TimeSpentValues :
        LET once == mark_solved(progress, config, id, t1, clock).progress
        IN mark_solved(once, config, id, t2, clock + 1) = Result(once, FALSE)

(* An id is solved, with time credited for it *)
C2_Witness ==
    /\ progress.solved_problems # <<>>
    /\ progress.total_time_spent > 0
    /\ progress.solve_history # <<>>

IsPrefix(s, t) == Len(s) <= Len(t) /\ SubSeq(t, 1, Len(s)) = s

(* mark_solved(id, t) then mark_unsolved(id), for a catalog id not solved *)
SolveThenUnsolve(id, t) ==
    LET a == mark_solved(progress, config, id, t, clock).progress
        b == mark_unsolved(a, config, id, clock + 1).progress
    IN /\ id \notin SolvedIds(b)
       /\ SolvedIds(b) = SolvedIds(progress)
       /\ Len(b.solve_history) = Len(progress.solve_history) + 1
       /\ b.solve_history = a.solve_history
       /\ b.total_time_spent = progress.total_time_spent + t
       /\ b.total_time_spent = a.total_time_spent

(* C3: the solve history is append-only: no step shortens or rewrites       *)
(* solve_history or lowers total_time_spent; mark_solved(id, t) then        *)
(* mark_unsolved(id) on an unsolved catalog id leaves the solved ids as     *)
(* they were, the history one entry longer and total_time_spent larger by t.*)
C3_HistoryAppendOnly ==
    /\ [](\A id \in CatalogIds(config) \ SolvedIds(progress), t \in TimeSpentValues :
             SolveThenUnsolve(id, t))
    /\ [][/\ IsPrefix(progress.solve_history, progress'.solve_history)
          /\ progress'.total_time_spent >= progress.total_time_spent]_vars

(* A catalog problem was solved with 30 minutes and unsolved again *)
C3_Witness ==
    /\ progress.solved_problems = <<>>
    /\ Len(progress.solve_history) = 1
    /\ progress.total_time_spent = 30

UnknownIds(cfg) == Ids \ CatalogIds(cfg)

(* C4 as stated: mark_solved of an unsolved id that is not in the catalog   *)
(* adds the id to solved_problems and appends an entry for it to            *)
(* solve_history, and leaves difficulty_stats and topic_stats unchanged.    *)
C4_UnknownIdGetsHistory ==
    [][\A id \in UnknownIds(config) \ SolvedIds(progress), t \in TimeSpentValues :
          MarkSolved(id, t) =>
              /\ id \in SolvedIds(progress')
              /\ Len(progress'.solve_history) = Len(progress.solve_history) + 1
              /\ progress'.solve_history[Len(progress'.solve_history)].problem_id = id
              /\ progress'.difficulty_stats = progress.difficulty_stats
              /\ progress'.topic_stats = progress.topic_stats]_vars

(* C4 amended: mark_solved of an unsolved id that is not in the catalog     *)
(* adds the id to solved_problems and time_spent to total_time_spent, but   *)
(* appends no entry to solve_history; difficulty_stats and topic_stats are  *)
(* left unchanged.                                                          *)
C4_UnknownIdSolvedWithoutHistory ==
    [][\A id \in UnknownIds(config) \ SolvedIds(progress), t \in TimeSpentValues :
          MarkSolved(id, t) =>
              /\ progress'.solved_problems = Append(progress.solved_problems, id)
              /\ progress'.solve_history = progress.solve_history
              /\ progress'.total_time_spent = progress.total_time_spent + t
              /\ progress'.difficulty_stats = progress.difficulty_stats
              /\ progress'.topic_stats = progress.topic_stats]_vars

(* Id 9, unknown to the sample catalog, is solved with 30 minutes *)
C4_Witness ==
    /\ config = SampleConfig
    /\ progress.solved_problems = <<9>>
    /\ progress.solve_history = <<>>
    /\ progress.total_time_spent = 30

(* C5: total_time_spent is the sum of the time_spent arguments of the       *)
(* mark_solved calls that found their id unsolved, in the catalog or not;   *)
(* mark_solved(5, 30) on the fresh record with problem 5 (Medium, DP) gives *)
(* solved [5], Medium = 1, DP = 1, total_time_spent 30 and one history      *)
(* entry, for id 5.                                                         *)
C5_TotalTimeIsSumOfArguments ==
    /\ progress.total_time_spent = credited
    /\ (config = SampleConfig /\ nops = 1 /\ credited = 30 /\ 5 \in SolvedIds(progress)) =>
          /\ progress.solved_problems = <<5>>
          /\ progress.difficulty_stats = [d \in Difficulties |-> IF d = "Medium" THEN 1 ELSE 0]
          /\ progress.topic_stats = [t \in {"DP"} |-> 1]
          /\ progress.total_time_spent = 30
          /\ Len(progress.solve_history) = 1
          /\ progress.solve_history[1].problem_id = 5
          /\ progress.solve_history[1].time_spent = 30

(* mark_solved(5, 30) was the one call made on the fresh record *)
C5_Witness ==
    /\ config = SampleConfig
    /\ nops = 1
    /\ progress.solved_problems = <<5>>
    /\ progress.total_time_spent = 30

(* Time was credited for an id that is not in the catalog and for one that is *)
C5_WitnessUnknown ==
    /\ config = SampleConfig
    /\ progress.solved_problems = <<9, 5>>
    /\ progress.total_time_spent = 60

----------------------------------------------------------------------------
(* Properties of get_recommended_problems *)

(* The catalog positions of the unsolved problems of importance High *)
Candidates(cfg, p) ==
    {i \in DOMAIN cfg.problems :
        /\ cfg.problems[i].id \notin SolvedIds(p)
        /\ cfg.problems[i].importance = "High"}

(* The catalog position of a problem of the catalog (ids are distinct) *)
PositionOf(cfg, q) == Min({i \in DOMAIN cfg.problems : cfg.problems[i].id = q.id})

(* q comes before r in the order: lower difficulty, or the same difficulty *)
(* and earlier in the catalog                                               *)
Before(cfg, q, r) ==
    \/ difficulty_order(q.difficulty) < difficulty_order(r.difficulty)
    \/ /\ q.difficulty = r.difficulty
       /\ PositionOf(cfg, q) < PositionOf(cfg, r)

(* C6: get_recommended_problems returns the first `limit` of the unsolved   *)
(* High-importance problems sorted stably by difficulty Easy < Medium <     *)
(* Hard: only unsolved High problems of the catalog, min(limit, number of   *)
(* candidates) of them, each before the next in (difficulty, catalog        *)
(* position), and every candidate left out comes after every one returned;  *)
(* empty when no candidate remains.                                         *)
C6_RecommendedIsSortedPrefix ==
    recommended.called =>
        LET res == recommended.result
            cat == config.problems
            cand == Candidates(config, progress)
            n == Cardinality(cand)
        IN /\ \A k \in DOMAIN res : \E i \in cand : cat[i] = res[k]
           /\ \A k \in DOMAIN res : res[k].id \notin SolvedIds(progress)
           /\ Len(res) <= recommended.limit
           /\ Len(res) = IF recommended.limit < n THEN recommended.limit ELSE n
           /\ \A k \in DOMAIN res, l \in DOMAIN res :
                 k < l => /\ difficulty_order(res[k].difficulty)
                               <= difficulty_order(res[l].difficulty)
                          /\ Before(config, res[k], res[l])
           /\ \A i \in cand :
                 (\A k \in DOMAIN res : res[k] # cat[i]) =>
                     \A k \in DOMAIN res : Before(config, res[k], cat[i])
           /\ (cand = {}) => res = <<>>

(* Two of three candidates are returned, of one difficulty and in catalog  *)
(* order although their ids fall, and a solved problem is left out          *)
C6_Witness ==
    /\ recommended.called
    /\ recommended.limit = 2
    /\ Len(recommended.result) = 2
    /\ Cardinality(Candidates(config, progress)) = 3
    /\ recommended.result[1].difficulty = recommended.result[2].difficulty
    /\ recommended.result[1].id > recommended.result[2].id
    /\ config.problems[1].difficulty = "Hard"

----------------------------------------------------------------------------
(* Properties of get_progress_stats *)

PercentageIsQuotient(cfg, p) ==
    LET stats == get_progress_stats(cfg, p)
        pct == stats.completion_percentage
    IN /\ pct.den > 0
       /\ (Len(cfg.problems) = 0) => pct.num = 0
       /\ (Len(cfg.problems) > 0) =>
             pct.num * Len(cfg.problems) = 100 * Len(p.solved_problems) * pct.den

PercentageInRange(cfg, p) ==
    LET stats == get_progress_stats(cfg, p)
        pct == stats.completion_percentage
    IN /\ 0 <= pct.num
       /\ pct.num <= 100 * pct.den
       /\ stats.solved_count <= stats.total_problems
       /\ stats.unsolved_count >= 0

(* C7 as stated: completion_percentage is 0 for an empty catalog and        *)
(* 100 * solved_count / total_problems otherwise, and after any calls of    *)
(* mark_solved and mark_unsolved it lies in [0, 100], solved_count is at    *)
(* most total_problems and unsolved_count is not negative.                  *)
C7_PercentageAlwaysInRange ==
    /\ PercentageIsQuotient(config, progress)
    /\ PercentageInRange(config, progress)

(* C7 amended: completion_percentage is 0 for an empty catalog and          *)
(* 100 * solved_count / total_problems otherwise; it lies in [0, 100] (and  *)
(* unsolved_count is not negative) as long as every solved id is an id of   *)
(* the catalog, as after calls of mark_solved and mark_unsolved on catalog  *)
(* ids only.                                                                *)
C7_PercentageInRangeForCatalogIds ==
    /\ PercentageIsQuotient(config, progress)
    /\ (SolvedIds(progress) \subseteq CatalogIds(config)) =>
           PercentageInRange(config, progress)

(* Every problem of the sample catalog is solved: 100 percent *)
C7_Witness ==
    /\ config = SampleConfig
    /\ SolvedIds(progress) = CatalogIds(config)
    /\ get_progress_stats(config, progress).completion_percentage = Fraction(300, 3)

----------------------------------------------------------------------------
(* Properties of the bookmarks and of the persisted record *)

BookmarkedIds(p) == Range(p.bookmarked_problems)

(* What toggle_bookmark must leave alone *)
RestOfRecord(p) ==
    <<p.solved_problems, p.difficulty_stats, p.topic_stats, p.notes,
      p.solve_history, p.total_time_spent>>

(* C8: toggle_bookmark is its own inverse: for any id, one call flips the   *)
(* membership of that id in bookmarked_problems and of no other id, two     *)
(* calls leave every membership as it was, and neither call changes         *)
(* solved_problems, the stats, the notes, the history or total_time_spent.  *)
C8_ToggleBookmarkIsInvolution ==
    \A id \in Ids :
        LET a == toggle_bookmark(progress, id, clock).progress
            b == toggle_bookmark(a, id, clock + 1).progress
        IN /\ BookmarkedIds(a) \ {id} = BookmarkedIds(progress) \ {id}
           /\ (id \in BookmarkedIds(a)) = (id \notin BookmarkedIds(progress))
           /\ BookmarkedIds(b) = BookmarkedIds(progress)
           /\ Len(b.bookmarked_problems) = Len(progress.bookmarked_problems)
           /\ RestOfRecord(a) = RestOfRecord(progress)
           /\ RestOfRecord(b) = RestOfRecord(progress)

(* Bookmarks were toggled on a record that has solved problems and a note *)
C8_Witness ==
    /\ progress.bookmarked_problems # <<>>
    /\ progress.solved_problems # <<>>
    /\ progress.notes # EmptyDict

(* C9: with one DataManager as the only writer, after every call the file   *)
(* holds the whole in-memory record, stamped with the time of the last      *)
(* write, and a store started from the file has exactly the state of the    *)
(* store before it.                                                         *)
C9_FileEqualsMemory ==
    /\ load_progress(file) = progress
    /\ (nops > 0) =>
          /\ file = json_dump(progress)
          /\ progress.last_updated = clock - 1

(* A solve, a bookmark and a note were each written to the file *)
C9_Witness ==
    /\ file.kind = "doc"
    /\ file.doc.solved_problems # <<>>
    /\ file.doc.bookmarked_problems # <<>>
    /\ file.doc.notes # EmptyDict
    /\ file.doc.last_updated = 2

(* C10: the write of the file is atomic: whenever the process fails, the    *)
(* file holds the complete record from before the call or the complete      *)
(* record after it, so the next load_progress loses nothing that was        *)
(* persisted.                                                               *)
C10_WriteIsAtomic ==
    (pc = "down") => load_progress(file) \in {durable, progress}

----------------------------------------------------------------------------
(* The start of the application: DataManager() on the files as they are    *)

(* load_config: json.load raises JSONDecodeError on a file that does not   *)
(* parse, and only FileNotFoundError is caught                              *)
load_config_raises(source) == source = "malformed"

(* A progress file written by an earlier session *)
SavedFile == json_dump(mark_solved(_create_default_progress, SampleConfig, 1, 30, 0).progress)

InitStart ==
    /\ configFile \in {"missing", "malformed", "present"}
    /\ file \in {AbsentFile, PartialFile, SavedFile}
    /\ config = EmptyConfig
    /\ progress = _create_default_progress
    /\ clock = 1
    /\ pc = "new"
    /\ nops = 0
    /\ credited = 0
    /\ durable = load_progress(file)
    /\ recommended = NotRecommended
    /\ NoSecondStore

(* __init__: load_config, then load_progress; an exception of load_config *)
(* leaves __init__ and no DataManager exists                               *)
Construct ==
    /\ pc = "new"
    /\ IF load_config_raises(configFile)
       THEN /\ pc' = "failed"
            /\ UNCHANGED <<config, progress>>
       ELSE /\ config' = load_config(configFile)
            /\ progress' = load_progress(file)
            /\ pc' = "idle"
    /\ UNCHANGED <<aux, file, clock, nops, credited, durable, recommended>>

NextStart ==
    \/ Construct
    \/ \E id \in Ids, t \in TimeSpentValues : MarkSolved(id, t)
    \/ \E id \in Ids : MarkUnsolved(id)
    \/ \E id \in Ids : ToggleBookmark(id)
    \/ \E id \in Ids, note \in NoteTexts : SaveNote(id, note)

SpecStart == InitStart /\ [][NextStart]_vars

(* C11: when the catalog file is missing or malformed, the construction of *)
(* the DataManager does not fail, the catalog is the empty one (no         *)
(* problems, learning paths, topics or patterns) and every catalog query   *)
(* returns an empty result.                                                *)
C11_BadConfigGivesEmptyCatalog ==
    /\ pc # "failed"
    /\ (pc = "idle" /\ configFile \in {"missing", "malformed"}) =>
          /\ config.problems = <<>>
          /\ config.learning_paths = EmptyDict
          /\ config.topics = <<>>
          /\ config.patterns = <<>>
          /\ get_all_problems(config) = <<>>
          /\ \A id \in Ids : get_problem_by_id(config, id) = NoProblem

(* Every mutator and the stats query can be applied to the record p *)
WorksOn(cfg, p, now) ==
    LET fields == {"solved_problems", "bookmarked_problems", "notes", "difficulty_stats",
                   "topic_stats", "last_updated", "daily_streak", "total_time_spent",
                   "solve_history"}
    IN /\ \A id \in Ids, t \in TimeSpentValues :
             DOMAIN mark_solved(p, cfg, id, t, now).progress = fields
       /\ \A id \in Ids :
             /\ DOMAIN mark_unsolved(p, cfg, id, now).progress = fields
             /\ DOMAIN toggle_bookmark(p, id, now).progress = fields
             /\ get_note(p, id) \in NoteTexts
       /\ \A id \in Ids, note \in NoteTexts :
             DOMAIN save_note(p, id, note, now).progress = fields
       /\ get_progress_stats(cfg, p).solved_count = Len(p.solved_problems)
       /\ get_progress_stats(cfg, p).completion_percentage.den > 0

(* C12: when the progress file is absent or unreadable at startup,         *)
(* load_progress gives the default record (no solved or bookmarked         *)
(* problems, no notes, Easy, Medium and Hard all 0, no topic stats,        *)
(* total_time_spent 0, empty history) and the construction does not fail   *)
(* for it; every mutator and the stats query work on that record and on    *)
(* the records that follow.                                                *)
C12_BadProgressFileGivesDefault ==
    /\ (pc = "idle" /\ nops = 0 /\ file.kind \in {"absent", "partial"}) =>
          /\ progress.solved_problems = <<>>
          /\ progress.bookmarked_problems = <<>>
          /\ progress.notes = EmptyDict
          /\ progress.difficulty_stats = [d \in {"Easy", "Medium", "Hard"} |-> 0]
          /\ progress.topic_stats = EmptyDict
          /\ progress.total_time_spent = 0
          /\ progress.solve_history = <<>>
          /\ progress.last_updated = None
    /\ (pc = "failed") => load_config_raises(configFile)
    /\ (pc = "idle") => WorksOn(config, progress, clock)

(* A DataManager was built on a progress file that does not parse, and a   *)
(* problem was then marked solved and a note saved                         *)
C12_Witness ==
    /\ pc = "idle"
    /\ configFile = "present"
    /\ durable # load_progress(SavedFile)
    /\ nops = 2
    /\ progress.solved_problems = <<5>>
    /\ progress.notes # EmptyDict
    /\ progress.solve_history[1].timestamp = 1

----------------------------------------------------------------------------
(* utils.calculate_streak.  A timestamp counts half days, so that a day    *)
(* holds two of them.                                                       *)

MaxDay == 3
MaxHistory == 3

(* datetime.fromisoformat(timestamp).date() *)
date_of(timestamp) == timestamp \div 2

(* sorted(solve_history, key=timestamp, reverse=True): stable, so entries  *)
(* of one timestamp keep their order                                        *)
RECURSIVE InsertByTimestamp(_, _)
InsertByTimestamp(sorted, x) ==
    IF sorted = <<>> THEN <<x>>
    ELSE LET last == sorted[Len(sorted)]
         IN IF last.timestamp >= x.timestamp
            THEN Append(sorted, x)
            ELSE Append(InsertByTimestamp(SubSeq(sorted, 1, Len(sorted) - 1), x), last)

RECURSIVE SortNewestFirst(_)
SortNewestFirst(s) ==
    IF s = <<>> THEN <<>>
    ELSE InsertByTimestamp(SortNewestFirst(SubSeq(s, 1, Len(s) - 1)), s[Len(s)])

(* The loop over the sorted entries, with its break *)
RECURSIVE StreakLoop(_, _, _)
StreakLoop(entries, count, current_date) ==
    IF entries = <<>> THEN count
    ELSE LET entry_date == date_of(Head(entries).timestamp)
         IN IF entry_date = current_date \/ entry_date = current_date - count
            THEN IF entry_date < current_date
                 THEN StreakLoop(Tail(entries), count + 1, entry_date)
                 ELSE StreakLoop(Tail(entries), count, current_date)
            ELSE count

calculate_streak(solve_history, now) ==
    IF solve_history = <<>> THEN 0
    ELSE StreakLoop(SortNewestFirst(solve_history), 0, date_of(now))

(* The histories of up to MaxHistory entries made on the days 0..MaxDay *)
Histories ==
    UNION { [1..n -> [problem_id : {1}, timestamp : 0..(2 * MaxDay + 1), time_spent : {0}]]
            : n \in 0..MaxHistory }

(* A record with any such history, looked at in the evening of day MaxDay *)
InitStreak ==
    /\ configFile = "present"
    /\ config = SampleConfig
    /\ \E h \in Histories : progress = [_create_default_progress EXCEPT !.solve_history = h]
    /\ file = AbsentFile
    /\ clock = 2 * MaxDay + 1
    /\ pc = "idle"
    /\ nops = 0
    /\ credited = 0
    /\ durable = _create_default_progress
    /\ recommended = NotRecommended
    /\ other = _create_default_progress
    /\ writer = 0
    /\ streak = NoStreak

CalculateStreak ==
    /\ pc = "idle"
    /\ ~streak.called
    /\ streak' = [called |-> TRUE, result |-> calculate_streak(progress.solve_history, clock)]
    /\ UNCHANGED <<config, progress, file, clock, pc, nops, credited, durable, recommended,
                   configFile, other, writer>>

NextStreak == CalculateStreak

SpecStreak == InitStreak /\ [][NextStreak]_vars

(* The days that have an entry in the history *)
SolveDays(solve_history) == {date_of(solve_history[i].timestamp) : i \in DOMAIN solve_history}

(* C13: calculate_streak returns the number of consecutive days before     *)
(* today that have a solve: when each of the days today-1 .. today-k has   *)
(* an entry and day today-(k+1) has none, the result is k, with or without *)
(* entries of today; it is 0 for the empty history.                        *)
C13_StreakCountsPriorDays ==
    streak.called =>
        LET today == date_of(clock)
            days == SolveDays(progress.solve_history)
        IN /\ (progress.solve_history = <<>>) => streak.result = 0
           /\ \A k \in 0..today :
                 (/\ \A j \in 1..k : (today - j) \in days
                  /\ (today - (k + 1)) \notin days)
                     => streak.result = k

----------------------------------------------------------------------------
(* Properties of the notes *)

HasNote(p, id) == ToString(id) \in DOMAIN p.notes

(* What save_note must leave alone *)
AllButNotes(p) ==
    <<p.solved_problems, p.bookmarked_problems, p.difficulty_stats, p.topic_stats,
      p.solve_history, p.total_time_spent>>

(* C14: notes round-trip per id: get_note(id) is the empty string while no *)
(* note was saved for id; after save_note(id, text) it is text, the empty  *)
(* text being stored as a note; a save_note for one id changes the note of *)
(* no other id, nor solved_problems, the bookmarks, the stats or the       *)
(* history; and no other call changes any note, so get_note(id) is always  *)
(* the text of the most recent save_note for id.                           *)
C14_NotesRoundTrip ==
    /\ [](\A id \in Ids : ~HasNote(progress, id) => get_note(progress, id) = "")
    /\ []((nops = 0) => \A id \in Ids : ~HasNote(progress, id))
    /\ [][\A id \in Ids, note \in NoteTexts :
             SaveNote(id, note) =>
                 /\ get_note(progress', id) = note
                 /\ HasNote(progress', id)
                 /\ \A j \in Ids \ {id} :
                       /\ get_note(progress', j) = get_note(progress, j)
                       /\ HasNote(progress', j) = HasNote(progress, j)
                 /\ AllButNotes(progress') = AllButNotes(progress)]_vars
    /\ [][(\A id \in Ids, note \in NoteTexts : ~SaveNote(id, note)) =>
             progress'.notes = progress.notes]_vars

(* After a first call, the empty text was saved for id 9, which is not in *)
(* the catalog, and then the text "n" for id 1                             *)
C14_Witness ==
    /\ nops = 3
    /\ HasNote(progress, 9)
    /\ get_note(progress, 9) = ""
    /\ progress.notes[ToString(9)].last_updated = 1
    /\ get_note(progress, 1) = "n"
    /\ progress.notes[ToString(1)].last_updated = 2
    /\ progress.last_updated = 2

----------------------------------------------------------------------------
(* Properties of the floors of the stats *)

(* What mark_unsolved computes for topic_stats before max(0, ...) *)
UnflooredTopicCount(p, problem) == Get(p.topic_stats, problem.topic, 0) - 1

(* C16: from the default record, after any calls of the four mutators with *)
(* any ids, every difficulty_stats value is at least 0 although             *)
(* mark_unsolved decrements it without a floor, and the floor max(0, ...)  *)
(* on topic_stats changes no result: for every solved id of the catalog,   *)
(* the id mark_unsolved may be called for, the decrement leaves both       *)
(* counters at 0 or more.                                                  *)
C16_StatsNeverNegative ==
    /\ \A d \in Difficulties : progress.difficulty_stats[d] >= 0
    /\ \A t \in DOMAIN progress.topic_stats : progress.topic_stats[t] >= 0
    /\ \A id \in Ids :
          LET problem == get_problem_by_id(config, id)
              after == mark_unsolved(progress, config, id, clock).progress
          IN (id \in SolvedIds(progress) /\ problem # NoProblem) =>
                 /\ UnflooredTopicCount(progress, problem) >= 0
                 /\ after.topic_stats[problem.topic] = UnflooredTopicCount(progress, problem)
                 /\ after.difficulty_stats[problem.difficulty] >= 0

(* A catalog problem and an id outside the catalog were solved and the     *)
(* catalog problem unsolved again, its counters back at 0                   *)
C16_Witness ==
    /\ config = SampleConfig
    /\ progress.solved_problems = <<9>>
    /\ Len(progress.solve_history) = 1
    /\ progress.difficulty_stats = [d \in Difficulties |-> 0]
    /\ DOMAIN progress.topic_stats # {}
    /\ \A t \in DOMAIN progress.topic_stats : progress.topic_stats[t] = 0

----------------------------------------------------------------------------
(* Two DataManagers opened on the same progress file, their calls          *)
(* interleaved; each call runs to its end before the next starts            *)

(* The ids, time and text the two stores are called with *)
TwoIds == {1, 9}

(* The record of store i *)
Mem(i) == IF i = 1 THEN progress ELSE other

(* open(progress_file, 'a') in place of 'w': the document is appended to   *)
(* what the file holds, which no longer parses                              *)
append_to_file(f, p) == IF f.kind = "absent" THEN json_dump(p) ELSE PartialFile

(* open(progress_file, 'w') and json.dump: what the file held is dropped   *)
write_file(f, p) == json_dump(p)

InitTwo ==
    /\ configFile = "present"
    /\ config = load_config(configFile)
    /\ file \in {AbsentFile, PartialFile}
    /\ progress = load_progress(file)
    /\ other = load_progress(file)
    /\ writer = 0
    /\ clock = 0
    /\ pc = "idle"
    /\ nops = 0
    /\ credited = 0
    /\ durable = load_progress(file)
    /\ recommended = NotRecommended
    /\ streak = NoStreak

(* A call of store i whose result is r, the write of the file included *)
CallBy(i, r, time_spent) ==
    /\ pc = "idle"
    /\ r.saved => nops < MaxOps
    /\ progress' = IF i = 1 THEN r.progress ELSE progress
    /\ other' = IF i = 2 THEN r.progress ELSE other
    /\ file' = IF r.saved THEN write_file(file, r.progress) ELSE file
    /\ writer' = IF r.saved THEN i ELSE writer
    /\ durable' = IF r.saved THEN r.progress ELSE durable
    /\ nops' = IF r.saved THEN nops + 1 ELSE nops
    /\ credited' = IF r.saved THEN credited + time_spent ELSE credited
    /\ clock' = IF r.saved THEN clock + 1 ELSE clock
    /\ UNCHANGED <<config, pc, recommended, configFile, streak>>

MarkSolvedBy(i, id, t) == CallBy(i, mark_solved(Mem(i), config, id, t, clock), t)

MarkUnsolvedBy(i, id) == CallBy(i, mark_unsolved(Mem(i), config, id, clock), 0)

ToggleBookmarkBy(i, id) == CallBy(i, toggle_bookmark(Mem(i), id, clock), 0)

SaveNoteBy(i, id, note) == CallBy(i, save_note(Mem(i), id, note, clock), 0)

(* Store i is closed and a new DataManager opened in its place *)
Reopen(i) ==
    /\ pc = "idle"
    /\ progress' = IF i = 1 THEN load_progress(file) ELSE progress
    /\ other' = IF i = 2 THEN load_progress(file) ELSE other
    /\ UNCHANGED <<config, file, clock, pc, nops, credited, durable, recommended,
                   configFile, writer, streak>>

NextTwo ==
    \/ \E i \in {1, 2}, id \in TwoIds : MarkSolvedBy(i, id, 30)
    \/ \E i \in {1, 2}, id \in TwoIds : MarkUnsolvedBy(i, id)
    \/ \E i \in {1, 2}, id \in TwoIds : ToggleBookmarkBy(i, id)
    \/ \E i \in {1, 2}, id \in TwoIds : SaveNoteBy(i, id, "n")
    \/ \E i \in {1, 2} : Reopen(i)

SpecTwo == InitTwo /\ [][NextTwo]_vars

(* C15: with two DataManagers on one progress file the last write wins on  *)
(* the whole record: after any write the file holds exactly the complete   *)
(* in-memory record of the store that wrote, whatever the other store had  *)
(* persisted before; written and loaded again, it is that record.          *)
C15_LastWriteWins ==
    (writer # 0) =>
        /\ file = json_dump(Mem(writer))
        /\ load_progress(file) = Mem(writer)
        /\ file.doc.last_updated = clock - 1

(* A lost update: store 1 marked problem 1 solved and persisted it; store  *)
(* 2, which had loaded its record before, then bookmarked, and the file no *)
(* longer has problem 1 solved                                             *)
C15_LostUpdate ==
    /\ writer = 2
    /\ 1 \in SolvedIds(progress)
    /\ progress.last_updated # None
    /\ progress.last_updated < other.last_updated
    /\ file.kind = "doc"
    /\ 1 \notin SolvedIds(file.doc)
    /\ file.doc.bookmarked_problems # <<>>

====
